---- MODULE Spec2Model ----
(***************************************************************************)
(* Student CRUD API: the HTTP handlers (internal/http/handlers/student),   *)
(* the response helpers (internal/utils/response) and the SQLite storage   *)
(* (internal/storage/sqlite) over the single table `students`.             *)
(*                                                                         *)
(* A request is served by one goroutine.  Every SQL statement is atomic;   *)
(* Update and Delete issue several statements with no transaction around   *)
(* them, so they are modelled as several steps of the serving process.     *)
(***************************************************************************)
EXTENDS Integers, Sequences, FiniteSets, TLC

VARIABLES table, seq, pc, req, resp, last

vars == <<table, seq, pc, req, resp, last>>

(***************************************************************************)
(* Bounds                                                                  *)
(***************************************************************************)
\* The number of rows ever inserted (caps the AUTOINCREMENT counter).
MaxId == 2

\* The goroutines serving requests.
Procs == {"p1", "p2"}

\* The goroutine that serves the requests of a run without concurrency.
SeqProcs == {"p1"}

(***************************************************************************)
(* Values                                                                  *)
(***************************************************************************)
\* A decoded JSON value of a map[string]any body: string, number or null.
JStr(s) == [t |-> "str", s |-> s, n |-> 0]
JNum(n) == [t |-> "num", s |-> "", n |-> n]
JNull == [t |-> "null", s |-> "", n |-> 0]

\* A value stored in the `age` column: SQLite keeps the storage class with it.
IntCell(n) == [t |-> "int", s |-> "", n |-> n]
TextCell(s) == [t |-> "text", s |-> s, n |-> 0]

\* The columns of CREATE TABLE students.
Columns == {"id", "email", "name", "age"}

\* types.Student, and its zero value.
Student(id, email, name, age) == [Id |-> id, Email |-> email, Name |-> name, Age |-> age]
ZeroStudent == Student(0, "", "", 0)

\* A Go map with no entries (also what ranging over a nil map yields).
EmptyMap == [k \in {} |-> JNull]

\* base with the fields named in over replaced.
With(base, over) == [k \in DOMAIN base |-> IF k \in DOMAIN over THEN over[k] ELSE base[k]]

(***************************************************************************)
(* Errors                                                                  *)
(***************************************************************************)
ErrNoRows == "sql: no rows in result set"
ErrScan == "sql: Scan error on column index 3, name \"age\": converting driver.Value type to a int: invalid syntax"
ErrNoFields == "no fields to update"
ErrUniqueEmail == "UNIQUE constraint failed: students.email"
ErrUniqueId == "UNIQUE constraint failed: students.id"
ErrNotNull == "NOT NULL constraint failed"
ErrMismatch == "datatype mismatch"
ErrSyntax == "near \"WHERE\": syntax error"
ErrNoColumn == "no such column"
ErrEmptyBody == "empty request body"
ErrInvalidJSON == "invalid JSON: unexpected end of JSON input"
ErrInvalidId == "invalid student ID"

\* fmt.Errorf("student not found: %w", err)
WrapNotFound(err) == "student not found: " \o err

(***************************************************************************)
(* Storage: internal/storage/sqlite.  A row of `students` is               *)
(* [id, email, name, age]; email and name have TEXT affinity and hold a    *)
(* string, age has INTEGER affinity and holds a cell with its storage      *)
(* class.  seq is the AUTOINCREMENT counter (sqlite_sequence).             *)
(***************************************************************************)
Max(a, b) == IF a >= b THEN a ELSE b

RECURSIVE MaxRowId(_)
MaxRowId(rows) ==
  IF rows = {} THEN 0
  ELSE LET r == CHOOSE x \in rows : TRUE
       IN Max(r.id, MaxRowId(rows \ {r}))

\* A plausible fault: the id column declared without AUTOINCREMENT, so that
\* the new rowid is one more than the largest rowid stored.
NextRowIdReused(rows, s) == MaxRowId(rows) + 1

\* AUTOINCREMENT: one more than the largest rowid ever used.
NextRowId(rows, s) == Max(s, MaxRowId(rows)) + 1

\* A plausible fault: the values bound in the order of the table's columns
\* (email before name) instead of the order of the INSERT's column list.
InsertRowSwapped(id, name, email, age) ==
  [id |-> id, email |-> name, name |-> email, age |-> IntCell(age)]

\* The row INSERT INTO students (name, email, age) VALUES (?, ?, ?) stores,
\* bound from a Go string, string and int.
InsertRow(id, name, email, age) ==
  [id |-> id, email |-> email, name |-> name, age |-> IntCell(age)]

\* A plausible fault: the email column declared without UNIQUE.
EmailNeverTaken(rows, email, id) == FALSE

\* email TEXT NOT NULL UNIQUE: another row than id already holds email.
EmailTaken(rows, email, id) == \E r \in rows : r.id # id /\ r.email = email

\* SELECT id, email, name, age FROM students WHERE id = ? LIMIT 1
SelectById(rows, id) == {r \in rows : r.id = id}

\* Scan(&student.Id, &student.Email, &student.Name, &student.Age): Age is a
\* Go int, so a non-integer value in the age column fails the conversion.
Scan(r) ==
  IF r.age.t = "int"
  THEN [err |-> "", student |-> Student(r.id, r.email, r.name, r.age.n)]
  ELSE [err |-> ErrScan, student |-> ZeroStudent]

CreateStudent(rows, s, name, email, age) ==
  IF EmailTaken(rows, email, 0)
  THEN [err |-> ErrUniqueEmail, id |-> 0, rows |-> rows, seq |-> s]
  ELSE LET id == NextRowId(rows, s)
       IN [err |-> "", id |-> id,
           rows |-> rows \cup {InsertRow(id, name, email, age)}, seq |-> id]

\* A plausible fault: the sql.ErrNoRows of a query that finds no row is
\* dropped, and the zero Student returned without an error.
GetStudentByIdUnchecked(rows, id) ==
  LET m == SelectById(rows, id)
  IN IF m = {} THEN [err |-> "", student |-> ZeroStudent]
     ELSE Scan(CHOOSE r \in m : TRUE)

GetStudentById(rows, id) ==
  LET m == SelectById(rows, id)
  IN IF m = {} THEN [err |-> ErrNoRows, student |-> ZeroStudent]
     ELSE Scan(CHOOSE r \in m : TRUE)

\* The rows in rowid order, as the table scan of SELECT ... FROM students
\* returns them.
RECURSIVE RowsInOrder(_)
RowsInOrder(rows) ==
  IF rows = {} THEN <<>>
  ELSE LET r == CHOOSE x \in rows : \A y \in rows : x.id <= y.id
       IN <<r>> \o RowsInOrder(rows \ {r})

\* GetStudents: `var students []types.Student` stays nil when no row is
\* appended; a failed Scan returns (nil, err).
GetStudents(rows) ==
  LET rs == RowsInOrder(rows)
  IN IF \E i \in 1..Len(rs) : Scan(rs[i]).err # ""
     THEN [err |-> ErrScan, isNil |-> TRUE, items |-> <<>>]
     ELSE [err |-> "", isNil |-> rows = {},
           items |-> [i \in 1..Len(rs) |-> Scan(rs[i]).student]]

\* What a bound value becomes in a column with TEXT affinity: a string is
\* kept, a number (a Go float64) is stored as the text of the real.
TextAffinity(v) == IF v.t = "str" THEN v.s ELSE ToString(v.n) \o ".0"

\* What a bound value becomes in a column with INTEGER affinity: a number
\* without fraction becomes an integer, text that is no number stays text
\* (the strings of this model are no numeric literals).
IntAffinity(v) == IF v.t = "num" THEN IntCell(v.n) ELSE TextCell(v.s)

\* The row after `SET k = ?` for every key k of updates.
SetColumns(r, updates) ==
  LET has(k) == k \in DOMAIN updates
  IN [id    |-> IF has("id") THEN updates["id"].n ELSE r.id,
      email |-> IF has("email") THEN TextAffinity(updates["email"]) ELSE r.email,
      name  |-> IF has("name") THEN TextAffinity(updates["name"]) ELSE r.name,
      age   |-> IF has("age") THEN IntAffinity(updates["age"]) ELSE r.age]

\* Prepare and Exec of "UPDATE students SET " + (k + " = ?", ...) +
\* " WHERE id = ?": the statement is atomic, a constraint failure leaves the
\* table as it was, and a statement that matches no row changes nothing and
\* is no error.
ExecUpdate(rows, id, updates) ==
  LET cols == DOMAIN updates
      m == SelectById(rows, id)
      fail(e) == [err |-> e, rows |-> rows]
  IN IF cols = {} THEN fail(ErrSyntax)
     ELSE IF ~(cols \subseteq Columns) THEN fail(ErrNoColumn)
     ELSE IF m = {} THEN [err |-> "", rows |-> rows]
     ELSE LET old == CHOOSE r \in m : TRUE
              new == SetColumns(old, updates)
          IN IF \E k \in cols : updates[k].t = "null" THEN fail(ErrNotNull)
             ELSE IF "id" \in cols /\ updates["id"].t # "num" THEN fail(ErrMismatch)
             ELSE IF \E r \in rows \ {old} : r.id = new.id THEN fail(ErrUniqueId)
             ELSE IF EmailTaken(rows, new.email, id) THEN fail(ErrUniqueEmail)
             ELSE [err |-> "", rows |-> (rows \ {old}) \cup {new}]

\* A plausible fault: the count is taken to be 1 instead of being read from
\* res.RowsAffected().
ExecDeleteCountOne(rows, id) ==
  [rows |-> rows \ SelectById(rows, id),
   affected |-> 1]

\* Exec of "DELETE FROM students WHERE id = ?" and res.RowsAffected().
ExecDelete(rows, id) ==
  [rows |-> rows \ SelectById(rows, id),
   affected |-> Cardinality(SelectById(rows, id))]

(***************************************************************************)
(* Requests                                                                *)
(***************************************************************************)
\* The {id} path segment: a decimal number, or text that is none.
Seg(n) == [numeric |-> TRUE, n |-> n]
BadSeg == [numeric |-> FALSE, n |-> 0]
NoSeg == [numeric |-> FALSE, n |-> -1]

\* A POST body: no bytes at all, bytes that do not decode into a Student
\* (bad syntax, or a value of the wrong JSON type), or a JSON object whose
\* absent fields stay at the zero value.
PostJson(name, email, age) == [kind |-> "json", Name |-> name, Email |-> email, Age |-> age]
PostEmpty == [kind |-> "empty", Name |-> "", Email |-> "", Age |-> 0]
PostMalformed == [kind |-> "malformed", Name |-> "", Email |-> "", Age |-> 0]
NoPost == [kind |-> "none", Name |-> "", Email |-> "", Age |-> 0]

\* A PATCH body: a JSON object (key -> value), or bytes that are none.
PatchJson(obj) == [valid |-> TRUE, obj |-> obj]
PatchMalformed == [valid |-> FALSE, obj |-> EmptyMap]
NoPatch == [valid |-> FALSE, obj |-> EmptyMap]

\* The request a process is serving: its input, what the handler has derived
\* from it, the table when it arrived, the storage operations called and SQL
\* statements executed for it so far, and the row with its id right before
\* and right after its UPDATE statement.
NoReq ==
  [op |-> "none", seg |-> NoSeg, post |-> NoPost, patch |-> NoPatch, id |-> 0,
   updates |-> EmptyMap, pre |-> {}, calls |-> <<>>, stmts |-> <<>>,
   before |-> {}, after |-> {}]

Begin(op, seg, post, patch) ==
  [NoReq EXCEPT !.op = op, !.seg = seg, !.post = post, !.patch = patch, !.pre = table]

\* What the handler wrote with response.WriteJson: the status code and the
\* envelope (status, error | message, data), data by its kind.
NoResp ==
  [req |-> NoReq, code |-> 0, status |-> "", error |-> "", message |-> "",
   lastId |-> 0, student |-> ZeroStudent, rowsDeleted |-> 0,
   students |-> <<>>, studentsNil |-> FALSE]

(***************************************************************************)
(* internal/utils/response                                                 *)
(***************************************************************************)
\* GeneralError(err): Response{Status: "error", Error: err.Error()}
GeneralError(err) == [Status |-> "error", Error |-> err]

\* strings.Join(elems, sep)
RECURSIVE Join(_, _)
Join(elems, sep) ==
  IF Len(elems) = 0 THEN ""
  ELSE IF Len(elems) = 1 THEN elems[1]
  ELSE elems[1] \o sep \o Join(Tail(elems), sep)

\* The message ValidationError builds for one validator.FieldError.
FieldMessage(e) ==
  IF e.tag = "required" THEN "field '" \o e.field \o "' is required"
  ELSE IF e.tag = "email" THEN "field '" \o e.field \o "' must be a valid email"
  ELSE "field '" \o e.field \o "' is invalid"

\* A plausible fault: only the first violation reported.
ValidationErrorFirst(errs) ==
  [Status |-> "error",
   Error |-> IF Len(errs) = 0 THEN "" ELSE FieldMessage(errs[1])]

ValidationError(errs) ==
  [Status |-> "error",
   Error |-> Join([i \in 1..Len(errs) |-> FieldMessage(errs[i])], ", ")]

(***************************************************************************)
(* Handlers: internal/http/handlers/student                                *)
(***************************************************************************)
\* A plausible fault: the conversion error dropped, the id left at zero.
ParseIntUnchecked(seg) == [err |-> FALSE, val |-> IF seg.numeric THEN seg.n ELSE 0]

\* strconv.ParseInt(id, 10, 64) on the path segment.
ParseInt(seg) == [err |-> ~seg.numeric, val |-> IF seg.numeric THEN seg.n ELSE 0]

\* json.NewDecoder(r.Body).Decode(&student)
DecodeStudent(body) ==
  [err |-> IF body.kind = "empty" THEN "EOF"
           ELSE IF body.kind = "malformed" THEN "syntax" ELSE "",
   student |-> IF body.kind = "json"
               THEN Student(0, body.Email, body.Name, body.Age)
               ELSE ZeroStudent]

\* json.NewDecoder(r.Body).Decode(&body) into a map[string]any, its error
\* dropped: a body that does not decode leaves the map nil.
DecodeMap(body) == IF body.valid THEN body.obj ELSE EmptyMap

\* The keys the PATCH handler lets through.
Allowed == {"name", "email", "age"}

\* A plausible fault: the body passed on unfiltered.
FilterNothing(obj) == obj

\* for k, v := range body { if allowed[k] { updates[k] = v } }
FilterAllowed(obj) == [k \in DOMAIN obj \cap Allowed |-> obj[k]]

\* The strings the `email` rule accepts, among those of this model.
IsEmail(s) == s \in {"a@x.io", "b@x.io"}

\* validate.Struct(student) under the rules of types.Student: name required;
\* email required and an email address; age required and within 1..120.  One
\* FieldError per violated field, in field order, for the first rule of the
\* field that fails.
ValidateStruct(s) ==
  (IF s.Name = "" THEN <<[field |-> "Name", tag |-> "required"]>> ELSE <<>>)
  \o (IF s.Email = "" THEN <<[field |-> "Email", tag |-> "required"]>>
      ELSE IF ~IsEmail(s.Email) THEN <<[field |-> "Email", tag |-> "email"]>>
      ELSE <<>>)
  \o (IF s.Age = 0 THEN <<[field |-> "Age", tag |-> "required"]>>
      ELSE IF s.Age < 1 THEN <<[field |-> "Age", tag |-> "gte"]>>
      ELSE IF s.Age > 120 THEN <<[field |-> "Age", tag |-> "lte"]>>
      ELSE <<>>)

\* response.WriteJson(w, code, response.GeneralError(err))
Failure(r, code, err) ==
  [NoResp EXCEPT !.req = r, !.code = code,
                 !.status = GeneralError(err).Status, !.error = GeneralError(err).Error]

\* response.WriteJson(w, code, map[string]any{"status": "success", ...})
Success(r, code, message) ==
  [NoResp EXCEPT !.req = r, !.code = code, !.status = "success", !.message = message]

\* The responses on record: those of the requests that overlap in time.  A
\* request that arrives while no other is being served starts a new record.
Kept(p) ==
  IF \A q \in Procs : pc[q] = "idle" THEN [q \in Procs |-> NoResp] ELSE resp

\* The handler has written its response and returns.
Finish(p, r) ==
  /\ resp' = [Kept(p) EXCEPT ![p] = r]
  /\ req' = [req EXCEPT ![p] = NoReq]
  /\ pc' = [pc EXCEPT ![p] = "idle"]
  /\ last' = p

\* The request goes on to its next SQL statement.
Continue(p, r, where) ==
  /\ req' = [req EXCEPT ![p] = r]
  /\ resp' = [Kept(p) EXCEPT ![p] = NoResp]
  /\ pc' = [pc EXCEPT ![p] = where]
  /\ last' = "none"

\* POST /api/students
New(p, body) ==
  /\ pc[p] = "idle"
  /\ LET r0 == Begin("create", NoSeg, body, NoPatch)
         d == DecodeStudent(body)
         errs == ValidateStruct(d.student)
         r1 == [r0 EXCEPT !.calls = <<"CreateStudent">>, !.stmts = <<"INSERT">>]
         c == CreateStudent(table, seq, d.student.Name, d.student.Email, d.student.Age)
     IN IF d.err = "EOF"
        THEN Finish(p, Failure(r0, 400, ErrEmptyBody)) /\ UNCHANGED <<table, seq>>
        ELSE IF d.err # ""
        THEN Finish(p, Failure(r0, 400, ErrInvalidJSON)) /\ UNCHANGED <<table, seq>>
        ELSE IF errs # <<>>
        THEN /\ Finish(p, [Failure(r0, 400, "") EXCEPT !.error = ValidationError(errs).Error])
             /\ UNCHANGED <<table, seq>>
        ELSE /\ c.err = "" => seq < MaxId
             /\ table' = c.rows
             /\ seq' = c.seq
             /\ IF c.err # ""
                THEN Finish(p, Failure(r1, 500, c.err))
                ELSE Finish(p, [Success(r1, 201, "student created successfully")
                                  EXCEPT !.lastId = c.id])

\* GET /api/students/{id}
GetById(p, seg) ==
  /\ pc[p] = "idle"
  /\ LET r0 == Begin("get", seg, NoPost, NoPatch)
         i == ParseInt(seg)
         r1 == [r0 EXCEPT !.id = i.val, !.calls = <<"GetStudentById">>, !.stmts = <<"SELECT">>]
         g == GetStudentById(table, i.val)
     IN IF i.err THEN Finish(p, Failure(r0, 400, ErrInvalidId))
        ELSE IF g.err # "" THEN Finish(p, Failure(r1, 500, g.err))
        ELSE Finish(p, [Success(r1, 200, "student fetched successfully")
                          EXCEPT !.student = g.student])
  /\ UNCHANGED <<table, seq>>

\* GET /api/students
GetList(p) ==
  /\ pc[p] = "idle"
  /\ LET r0 == Begin("list", NoSeg, NoPost, NoPatch)
         r1 == [r0 EXCEPT !.calls = <<"GetStudents">>, !.stmts = <<"SELECT">>]
         g == GetStudents(table)
     IN IF g.err # "" THEN Finish(p, Failure(r1, 500, g.err))
        ELSE Finish(p, [Success(r1, 200, "students fetched successfully")
                          EXCEPT !.students = g.items, !.studentsNil = g.isNil])
  /\ UNCHANGED <<table, seq>>

\* A plausible fault: the guard on the empty field-change set left out.
NoFieldsUnchecked(updates) == FALSE

\* Update's guard: len(updates) == 0
NoFields(updates) == Cardinality(DOMAIN updates) = 0

\* PATCH /api/students/{id}, up to and including Update's existence check.
UpdateById(p, seg, body) ==
  /\ pc[p] = "idle"
  /\ LET r0 == Begin("update", seg, NoPost, body)
         i == ParseInt(seg)
         updates == FilterAllowed(DecodeMap(body))
         r1 == [r0 EXCEPT !.id = i.val, !.updates = updates, !.calls = <<"Update">>]
         r2 == [r1 EXCEPT !.stmts = <<"SELECT">>]
         g == GetStudentById(table, i.val)
     IN IF i.err THEN Finish(p, Failure(r0, 400, ErrInvalidId))
        ELSE IF NoFields(updates) THEN Finish(p, Failure(r1, 500, ErrNoFields))
        ELSE IF g.err # "" THEN Finish(p, Failure(r2, 500, g.err))
        ELSE Continue(p, r2, "update_exec")
  /\ UNCHANGED <<table, seq>>

\* Update: the dynamic UPDATE statement.
UpdateExec(p) ==
  /\ pc[p] = "update_exec"
  /\ LET u == ExecUpdate(table, req[p].id, req[p].updates)
         r == [req[p] EXCEPT !.stmts = Append(@, "UPDATE"),
                             !.before = SelectById(table, req[p].id),
                             !.after = SelectById(u.rows, req[p].id)]
     IN /\ table' = u.rows
        /\ IF u.err # "" THEN Finish(p, Failure(r, 500, u.err))
           ELSE Continue(p, r, "update_reread")
  /\ UNCHANGED seq

\* A plausible fault: Update returns the Student it read before the UPDATE
\* statement instead of reading the row again.
UpdateRereadStale(p) ==
  /\ pc[p] = "update_reread"
  /\ LET r == [req[p] EXCEPT !.stmts = Append(@, "SELECT")]
         g == GetStudentById(r.before, r.id)
     IN IF g.err # "" THEN Finish(p, Failure(r, 500, g.err))
        ELSE Finish(p, [Success(r, 200, "student updated successfully")
                          EXCEPT !.student = g.student])
  /\ UNCHANGED <<table, seq>>

\* Update: `return s.GetStudentById(id)`, and the handler's response.
UpdateReread(p) ==
  /\ pc[p] = "update_reread"
  /\ LET r == [req[p] EXCEPT !.stmts = Append(@, "SELECT")]
         g == GetStudentById(table, r.id)
     IN IF g.err # "" THEN Finish(p, Failure(r, 500, g.err))
        ELSE Finish(p, [Success(r, 200, "student updated successfully")
                          EXCEPT !.student = g.student])
  /\ UNCHANGED <<table, seq>>

\* DELETE /api/students/{id}, up to and including Delete's existence check.
DeleteById(p, seg) ==
  /\ pc[p] = "idle"
  /\ LET r0 == Begin("delete", seg, NoPost, NoPatch)
         i == ParseInt(seg)
         r1 == [r0 EXCEPT !.id = i.val, !.calls = <<"Delete">>, !.stmts = <<"SELECT">>]
         g == GetStudentById(table, i.val)
     IN IF i.err THEN Finish(p, Failure(r0, 400, ErrInvalidId))
        ELSE IF g.err # "" THEN Finish(p, Failure(r1, 500, WrapNotFound(g.err)))
        ELSE Continue(p, r1, "delete_exec")
  /\ UNCHANGED <<table, seq>>

\* Delete: the DELETE statement, its affected-row count, and the response.
DeleteExec(p) ==
  /\ pc[p] = "delete_exec"
  /\ LET r == [req[p] EXCEPT !.stmts = Append(@, "DELETE")]
         d == ExecDelete(table, r.id)
     IN /\ table' = d.rows
        /\ Finish(p, [Success(r, 200, "student deleted successfully")
                        EXCEPT !.rowsDeleted = d.affected])
  /\ UNCHANGED seq

(***************************************************************************)
(* Inputs                                                                  *)
(***************************************************************************)
Segs == {BadSeg} \cup {Seg(n) : n \in 1..MaxId}

PostBodies ==
  {PostEmpty, PostMalformed}
  \cup {PostJson(n, e, a) : n \in {"", "Al"}, e \in {"nope", "a@x.io"}, a \in {0, 20, 121}}
  \cup {PostJson("Al", "b@x.io", 20), PostJson("Al", "", 20), PostJson("", "", 0),
        PostJson("Al", "a@x.io", -1)}

PatchBodies ==
  {PatchMalformed,
   PatchJson(EmptyMap),
   PatchJson("id" :> JNum(7)),
   PatchJson("age" :> JNum(21)),
   PatchJson("age" :> JNum(500)),
   PatchJson("age" :> JStr("abc")),
   PatchJson("age" :> JNull),
   PatchJson("name" :> JNum(5)),
   PatchJson("email" :> JStr("b@x.io")),
   PatchJson(("name" :> JStr("Bo")) @@ ("age" :> JNum(21)) @@ ("id" :> JNum(7)))}

(***************************************************************************)
(* Specifications                                                          *)
(***************************************************************************)
\* sqlite.New: CREATE TABLE IF NOT EXISTS students on a fresh database file.
Init ==
  /\ table = {}
  /\ seq = 0
  /\ pc = [p \in Procs |-> "idle"]
  /\ req = [p \in Procs |-> NoReq]
  /\ resp = [p \in Procs |-> NoResp]
  /\ last = "none"

\* Requests served one after the other.
Next ==
  \E p \in SeqProcs :
    \/ \E body \in PostBodies : New(p, body)
    \/ \E seg \in Segs : GetById(p, seg)
    \/ GetList(p)
    \/ \E seg \in Segs, body \in PatchBodies : UpdateById(p, seg, body)
    \/ UpdateExec(p)
    \/ UpdateReread(p)
    \/ \E seg \in Segs : DeleteById(p, seg)
    \/ DeleteExec(p)

Spec == Init /\ [][Next]_vars

\* The inputs of the concurrent runs.
ConcSegs == {Seg(n) : n \in 1..MaxId}

ConcPostBodies == {PostJson("Al", "a@x.io", 20), PostJson("Al", "b@x.io", 20)}

ConcPatchBodies ==
  {PatchJson("email" :> JStr("a@x.io")),
   PatchJson(("email" :> JStr("b@x.io")) @@ ("id" :> JNum(7)))}

\* Requests served concurrently, one goroutine each: the SQL statements of
\* different requests interleave freely.
ConcNext ==
  \E p \in Procs :
    \/ \E body \in ConcPostBodies : New(p, body)
    \/ \E seg \in ConcSegs, body \in ConcPatchBodies : UpdateById(p, seg, body)
    \/ UpdateExec(p)
    \/ UpdateReread(p)
    \/ \E seg \in ConcSegs : DeleteById(p, seg)
    \/ DeleteExec(p)

ConcSpec == Init /\ [][ConcNext]_vars

(***************************************************************************)
(* Properties                                                              *)
(***************************************************************************)
\* The request whose response process p has just written.
Done(p, op) == last = p /\ resp[p].req.op = op

\* The field rules of the data model, on a decoded POST body.
ValidName(s) == s # ""
ValidEmail(s) == IsEmail(s)
ValidAge(n) == n \in 1..120
ValidPost(b) == b.kind = "json" /\ ValidName(b.Name) /\ ValidEmail(b.Email) /\ ValidAge(b.Age)

\* C1: a create with a valid name, email and age whose email is not yet
\* stored returns a positive id, and getById on that id right afterwards
\* returns the Student with that id and the same name, email and age.
C1_CreateRoundTrip ==
  \A p \in Procs :
    LET r == resp[p]
        b == r.req.post
    IN (Done(p, "create") /\ ValidPost(b) /\ ~\E x \in r.req.pre : x.email = b.Email)
       => /\ r.code = 201
          /\ r.status = "success"
          /\ r.lastId > 0
          /\ GetStudentById(table, r.lastId)
               = [err |-> "", student |-> Student(r.lastId, b.Email, b.Name, b.Age)]

C1_Witness ==
  \E p \in Procs :
    /\ Done(p, "create")
    /\ resp[p].code = 201
    /\ resp[p].req.pre # {}
    /\ GetStudentById(table, resp[p].lastId).student.Email = "b@x.io"

\* Process p executes its UPDATE statement in this step.
UpdateStep(p) == pc[p] = "update_exec" /\ pc'[p] # "update_exec"

C2_Unique == \A r1, r2 \in table : r1.email = r2.email => r1 = r2

C2_CreateRejected ==
  \A p \in Procs :
    LET r == resp[p]
        b == r.req.post
    IN (Done(p, "create") /\ ValidPost(b) /\ \E x \in r.req.pre : x.email = b.Email)
       => r.code = 500 /\ r.error = ErrUniqueEmail /\ table = r.req.pre

C2_UpdateRejected ==
  \A p \in Procs :
    LET r == req[p]
    IN (/\ UpdateStep(p)
        /\ "email" \in DOMAIN r.updates
        /\ \E x \in table : x.id = r.id
        /\ \E x \in table : x.id # r.id /\ x.email = TextAffinity(r.updates["email"]))
       => /\ table' = table
          /\ last' = p
          /\ resp'[p].code = 500
          /\ resp'[p].error = ErrUniqueEmail

\* C2: under every interleaving of create, update and delete requests no two
\* stored students have the same email; a create, or an update of email, that
\* would give a second row an email already stored fails and leaves the
\* table, and so the row that holds the email, as it was.
C2_EmailUnique ==
  /\ [](C2_Unique /\ C2_CreateRejected)
  /\ [][C2_UpdateRejected]_vars

C2_Witness ==
  \E p \in Procs :
    /\ Done(p, "update")
    /\ resp[p].error = ErrUniqueEmail
    /\ \E x, y \in table : x.id # y.id /\ y.email = resp[p].req.updates["email"].s

\* The value supplied for a field is the value the row holds.
Holds(row, k, v) ==
  IF k = "age" THEN v.t = "num" /\ row.age = IntCell(v.n)
  ELSE v.t = "str" /\ row[k] = v.s

\* C3: a successful update sets exactly the supplied fields of the row with
\* that id to the supplied values; the row's other fields, its id, and every
\* other row are unchanged.
C3_UpdateFrame ==
  \A p \in Procs :
    LET r == resp[p].req
    IN (Done(p, "update") /\ resp[p].code = 200)
       => \E old \in r.pre, new \in table :
            /\ old.id = r.id /\ new.id = r.id
            /\ \A k \in Allowed :
                 IF k \in DOMAIN r.updates THEN Holds(new, k, r.updates[k])
                 ELSE new[k] = old[k]
            /\ table \ {new} = r.pre \ {old}

\* The error of a request for an id that has no row.
NotFound(err) == err = ErrNoRows \/ err = WrapNotFound(ErrNoRows)

\* C4: without concurrent requests, delete(id) on an id that has a stored row
\* returns 1, removes only that row, and getById(id) then fails with
\* NotFound; on an id with no stored row it fails with NotFound and leaves
\* the table unchanged.
C4_Delete ==
  \A p \in Procs :
    LET r == resp[p].req
        rows == SelectById(r.pre, r.id)
    IN (Done(p, "delete") /\ r.seg.numeric)
       => IF rows # {}
          THEN /\ resp[p].code = 200
               /\ resp[p].rowsDeleted = 1
               /\ table = r.pre \ rows
               /\ NotFound(GetStudentById(table, r.id).err)
          ELSE /\ resp[p].status = "error"
               /\ NotFound(resp[p].error)
               /\ table = r.pre

\* C5: every stored row has a non-empty name, an email of valid syntax and
\* an integer age in 1..120.
C5_RowsValid ==
  \A r \in table :
    /\ ValidName(r.name)
    /\ ValidEmail(r.email)
    /\ r.age.t = "int"
    /\ ValidAge(r.age.n)

Ids(rows) == {r.id : r \in rows}

\* The request process p is serving or has just answered.
Current(p) == IF pc[p] = "idle" THEN resp[p].req ELSE req[p]

C6_IdsUnique == \A r1, r2 \in table : r1.id = r2.id => r1 = r2

\* The columns of every UPDATE statement issued come from {name, email, age}.
C6_Columns ==
  \A p \in Procs :
    (\E i \in 1..Len(Current(p).stmts) : Current(p).stmts[i] = "UPDATE")
    => DOMAIN Current(p).updates \subseteq {"name", "email", "age"}

\* An id appears in the table only as the id a create returns, and leaves it
\* only by the DELETE statement of a delete of that id: no step gives a
\* stored row another id.
C6_IdsKept ==
  /\ \A i \in Ids(table') \ Ids(table) :
       \E p \in Procs : last' = p /\ resp'[p].req.op = "create" /\ resp'[p].lastId = i
  /\ \A i \in Ids(table) \ Ids(table') :
       \E p \in Procs : pc[p] = "delete_exec" /\ req[p].id = i /\ pc'[p] = "idle"

\* C6: ids are unique and immutable, and an update statement issued through
\* the PATCH handler writes only columns among name, email and age, whatever
\* keys the body has.
C6_IdsImmutable ==
  /\ [](C6_IdsUnique /\ C6_Columns)
  /\ [][C6_IdsKept]_vars

C6_Witness ==
  \E p \in Procs :
    /\ Done(p, "update")
    /\ resp[p].code = 200
    /\ "id" \in DOMAIN resp[p].req.patch.obj
    /\ resp[p].req.id \in Ids(table)
    /\ Cardinality(table) > 1

\* C7: an update with an empty field-change set fails with "no fields to
\* update" and leaves the table unchanged; a PATCH whose body has only keys
\* outside {name, email, age} reaches update with an empty set, fails this
\* way, and is answered with an error envelope and status 500.
C7_EmptyUpdate ==
  \A p \in Procs :
    LET r == resp[p].req
        keys == DOMAIN r.patch.obj
    IN /\ (Done(p, "update") /\ r.seg.numeric /\ r.patch.valid
           /\ keys \cap {"name", "email", "age"} = {})
          => DOMAIN r.updates = {}
       /\ (Done(p, "update") /\ r.calls = <<"Update">> /\ DOMAIN r.updates = {})
          => /\ resp[p].code = 500
             /\ resp[p].status = "error"
             /\ resp[p].error = "no fields to update"
             /\ table = r.pre

C7_Witness ==
  \E p \in Procs :
    /\ Done(p, "update")
    /\ DOMAIN resp[p].req.patch.obj = {"id"}
    /\ resp[p].req.id \in Ids(table)
    /\ resp[p].code = 500

\* C8: a POST with an empty body, a POST whose body violates a field rule,
\* and a GET, PATCH or DELETE whose {id} is not numeric are answered with
\* status 400 and an error envelope; no storage operation is called and the
\* table is unchanged.
C8_BadInputRejected ==
  \A p \in Procs :
    LET r == resp[p].req
        badPost == Done(p, "create")
                   /\ (r.post.kind = "empty" \/ (r.post.kind = "json" /\ ~ValidPost(r.post)))
        badId == (Done(p, "get") \/ Done(p, "update") \/ Done(p, "delete")) /\ ~r.seg.numeric
    IN /\ (badPost \/ badId)
          => /\ resp[p].code = 400
             /\ resp[p].status = "error"
             /\ resp[p].error # ""
             /\ resp[p].message = ""
             /\ r.calls = <<>>
             /\ r.stmts = <<>>
             /\ table = r.pre
       /\ (Done(p, "create") /\ r.post.kind = "empty") => resp[p].error = "empty request body"
       /\ badId => resp[p].error = "invalid student ID"

C8_Witness ==
  \E p \in Procs :
    /\ Done(p, "update")
    /\ ~resp[p].req.seg.numeric
    /\ DOMAIN resp[p].req.patch.obj = {"age"}
    /\ table # {}
    /\ resp[p].code = 400

\* C9: a request whose body is malformed JSON is answered with status 400
\* and an error envelope, and no storage operation is called, for POST and
\* for PATCH alike.
C9_MalformedRejected ==
  \A p \in Procs :
    LET r == resp[p].req
    IN ((Done(p, "create") /\ r.post.kind = "malformed")
        \/ (Done(p, "update") /\ r.seg.numeric /\ ~r.patch.valid))
       => /\ resp[p].code = 400
          /\ resp[p].status = "error"
          /\ resp[p].error # ""
          /\ r.calls = <<>>

\* The fields of a decoded POST body that violate their rule.
ViolatedFields(b) ==
  {f \in {"Name", "Email", "Age"} :
     \/ f = "Name" /\ ~ValidName(b.Name)
     \/ f = "Email" /\ ~ValidEmail(b.Email)
     \/ f = "Age" /\ ~ValidAge(b.Age)}

\* A message of kind k about field f.
ViolationMessage(f, k) ==
  IF k = "required" THEN "field '" \o f \o "' is required"
  ELSE IF k = "email" THEN "field '" \o f \o "' must be a valid email"
  ELSE "field '" \o f \o "' is invalid"

\* C10: when a create body violates the rules of several fields, the 400
\* response carries one message per violated field, joined by ", ": the
\* fields named are exactly the violated ones.
C10_AllViolations ==
  \A p \in Procs :
    LET r == resp[p].req
        v == ViolatedFields(r.post)
        n == Cardinality(v)
    IN (Done(p, "create") /\ r.post.kind = "json" /\ v # {})
       => /\ resp[p].code = 400
          /\ resp[p].status = "error"
          /\ \E fs \in [1..n -> v], ks \in [1..n -> {"required", "email", "invalid"}] :
               /\ \A i, j \in 1..n : fs[i] = fs[j] => i = j
               /\ resp[p].error
                    = Join([i \in 1..n |-> ViolationMessage(fs[i], ks[i])], ", ")

C10_Witness ==
  \E p \in Procs :
    /\ Done(p, "create")
    /\ ViolatedFields(resp[p].req.post) = {"Name", "Email", "Age"}
    /\ resp[p].code = 400
    /\ resp[p].error
         = "field 'Name' is required, field 'Email' must be a valid email, field 'Age' is invalid"

\* The element a list result holds for a stored row.
Lists(s, row) ==
  /\ s.Id = row.id
  /\ s.Name = row.name
  /\ s.Email = row.email
  /\ row.age = IntCell(s.Age)

\* C11: list answers 200 with a success envelope whose data holds exactly the
\* rows stored at the time of the call, each row once; on an empty table the
\* data is an empty sequence, not an error and not an absent value.
C11_List ==
  \A p \in Procs :
    LET r == resp[p].req
        items == resp[p].students
    IN Done(p, "list")
       => /\ resp[p].code = 200
          /\ resp[p].status = "success"
          /\ ~resp[p].studentsNil
          /\ Len(items) = Cardinality(r.pre)
          /\ \A row \in r.pre : \E i \in 1..Len(items) : Lists(items[i], row)

\* An UPDATE statement is among the statements executed for request r.
IssuedUpdate(r) == \E i \in 1..Len(r.stmts) : r.stmts[i] = "UPDATE"

\* The update requests answered for an id that had no stored row.
UpdateOfMissing(p) ==
  /\ Done(p, "update")
  /\ resp[p].req.seg.numeric
  /\ SelectById(resp[p].req.pre, resp[p].req.id) = {}

\* C12 as stated: the existence check comes before anything else, so an
\* update of an id with no stored row fails with NotFound for every
\* field-change set, the empty one included, issues no update statement and
\* leaves the table unchanged.
C12_ExistsFirst ==
  \A p \in Procs :
    UpdateOfMissing(p)
    => /\ resp[p].status = "error"
       /\ NotFound(resp[p].error)
       /\ ~IssuedUpdate(resp[p].req)
       /\ table = resp[p].req.pre

\* C12, amended: update first rejects the empty field-change set ("no fields
\* to update", before any statement) and only then checks that the row
\* exists; an update of an id with no stored row fails with NotFound for
\* every non-empty field-change set and with "no fields to update" for the
\* empty one, issues no update statement and leaves the table unchanged.
C12_MissingRow ==
  \A p \in Procs :
    LET r == resp[p].req
    IN UpdateOfMissing(p)
       => /\ resp[p].status = "error"
          /\ IF DOMAIN r.updates = {}
             THEN resp[p].error = ErrNoFields /\ r.stmts = <<>>
             ELSE resp[p].error = ErrNoRows /\ r.stmts = <<"SELECT">>
          /\ ~IssuedUpdate(r)
          /\ table = r.pre

C12_Witness ==
  \E p \in Procs :
    /\ UpdateOfMissing(p)
    /\ DOMAIN resp[p].req.updates = {"name", "age"}
    /\ resp[p].error = ErrNoRows
    /\ table # {}

\* The row a returned Student stands for.
AsRow(s) == [id |-> s.Id, email |-> s.Email, name |-> s.Name, age |-> IntCell(s.Age)]

\* The updates answered with 200 and a Student.
Updated(p) == Done(p, "update") /\ resp[p].code = 200

BothDeleted(p, q) ==
  /\ p # q
  /\ pc[p] = "idle" /\ pc[q] = "idle"
  /\ resp[p].req.op = "delete" /\ resp[q].req.op = "delete"
  /\ resp[p].req.seg.numeric /\ resp[q].req.seg.numeric
  /\ resp[p].req.id = resp[q].req.id
  /\ resp[p].req.id \in Ids(resp[p].req.pre) \cup Ids(resp[q].req.pre)

\* The delete was answered with 200 and the count n.
Counted(p, n) == resp[p].code = 200 /\ resp[p].rowsDeleted = n

C15_IdsUsed == Ids(table) \subseteq 1..seq

\* No step brings back an id that was handed out and is no longer stored: the
\* ids a create stores exceed every id used before, and an UPDATE statement
\* leaves the set of stored ids as it is.
C15_Step ==
  /\ seq' >= seq
  /\ \A i \in 1..seq : i \notin Ids(table) => i \notin Ids(table')
  /\ \A i \in Ids(table') \ Ids(table) : i > seq
  /\ \A p \in Procs : UpdateStep(p) => Ids(table') = Ids(table)

\* C15: once a delete has removed the row with an id, no later state holds a
\* row with that id, under any interleaving of requests: create never stores
\* an id used before, and an update whose existence check passed before the
\* delete took effect does not create the row again.
C15_NoRevival ==
  /\ []C15_IdsUsed
  /\ [][C15_Step]_vars

C15_Witness ==
  \E p \in Procs :
    /\ Done(p, "update")
    /\ resp[p].req.stmts = <<"SELECT", "UPDATE", "SELECT">>
    /\ resp[p].req.before = {}
    /\ resp[p].error = ErrNoRows
    /\ resp[p].req.id \in (1..seq) \ Ids(table)
    /\ \E row \in table : row.id > resp[p].req.id

\* C16: without concurrent requests, whenever create, update or delete is
\* answered with an error envelope, the table is what it was before the
\* call; in particular an update never changes the row and then reports a
\* failure from its re-read.
C16_ErrorLeavesTable ==
  \A p \in Procs :
    LET r == resp[p].req
    IN ((Done(p, "create") \/ Done(p, "update") \/ Done(p, "delete"))
        /\ resp[p].status = "error")
       => table = r.pre

====
